---- MODULE Spec2Model ----
(***************************************************************************)
(* The capture session controller of examples/tinylogger.rs: the control   *)
(* thread spawned in main (ZeroMQ SUB/PUB loop) and the frame callback     *)
(* Capture::on_frame_arrived, sharing Flags { capturing, video_encoder }.  *)
(* Each of the two Mutex<..> cells is modelled with its owner and its      *)
(* poison flag; every statement that takes a lock is one step.             *)
(***************************************************************************)
EXTENDS Integers, Sequences, FiniteSets

\* ---------------------------------------------------------------- bounds
\* commands (messages decoded by the match at the top of the loop) per run
MaxCmds == 3
\* on_frame_arrived invocations per run
MaxFrames == 3

\* ------------------------------------------------------- text and parsing
\* A text frame is a sequence of one-character strings.
STR_start == <<"s", "t", "a", "r", "t">>
STR_stop == <<"s", "t", "o", "p">>
STR_other == <<"x">>

\* texts the remote side may send as a command
Commands == {STR_start, STR_stop, STR_other}
\* texts the remote side may send as video_name
NameTexts == {<<"v">>, STR_stop}
\* texts the remote side may send as fps, width, height
FpsTexts == {<<"3", "0">>, <<"a", "b", "c">>}
WidthTexts == {<<"1", "9", "2", "0">>, <<"-", "1">>}
HeightTexts == {<<"1", "0", "8", "0">>, <<>>}

\* the parse error of str::parse::<u32>
ParseErr == -1

DigitVal(c) ==
    CASE c = "0" -> 0 [] c = "1" -> 1 [] c = "2" -> 2 [] c = "3" -> 3
      [] c = "4" -> 4 [] c = "5" -> 5 [] c = "6" -> 6 [] c = "7" -> 7
      [] c = "8" -> 8 [] c = "9" -> 9 [] OTHER -> ParseErr

RECURSIVE ParseDigits(_, _)
ParseDigits(s, acc) ==
    IF s = <<>> THEN acc
    ELSE IF DigitVal(Head(s)) = ParseErr THEN ParseErr
    ELSE ParseDigits(Tail(s), acc * 10 + DigitVal(Head(s)))

\* "...".parse::<u32>(): empty text, a sign without digits and any non-digit
\* are errors; a leading "+" is accepted.  (The texts of the model have at
\* most four digits, so the u32 range is never exceeded.)
ParseU32(s) ==
    IF s = <<>> THEN ParseErr
    ELSE IF Head(s) = "+"
         THEN (IF Len(s) = 1 THEN ParseErr ELSE ParseDigits(Tail(s), 0))
         ELSE ParseDigits(s, 0)

DigitChar(d) ==
    CASE d = 0 -> "0" [] d = 1 -> "1" [] d = 2 -> "2" [] d = 3 -> "3"
      [] d = 4 -> "4" [] d = 5 -> "5" [] d = 6 -> "6" [] d = 7 -> "7"
      [] d = 8 -> "8" [] OTHER -> "9"

\* u128::to_string(): decimal digits, most significant first
RECURSIVE to_string(_)
to_string(n) ==
    IF n < 10 THEN <<DigitChar(n)>>
    ELSE Append(to_string(n \div 10), DigitChar(n % 10))

\* ------------------------------------------------------------------ state
\* Option<VideoEncoder>::None; encoders are numbered from 1 in creation order
None == 0
Encoders == 1..MaxCmds

VARIABLES
    capturing,       \* Flags.capturing: the bool inside the Mutex
    video_encoder,   \* Flags.video_encoder: None or the encoder in the slot
    cap_owner,       \* holder of the capturing mutex: "free", "ctl"
    enc_owner,       \* holder of the video_encoder mutex: "free", "ctl", "hnd"
    cap_poison,      \* capturing mutex poisoned (a holder panicked)
    enc_poison,      \* video_encoder mutex poisoned
    was_capturing,   \* Capture.was_capturing
    hpc,             \* position of the capture thread in on_frame_arrived
    snap,            \* on_frame_arrived's local `capturing`
    taken,           \* the encoder moved out of the slot by take()
    cpc,             \* position of the control thread
    message,         \* the text last received by the control thread
    timestamp,       \* control thread local `timestamp`
    video_name, fps, width, height,   \* control thread locals of the start arm
    encoder,         \* control thread local `encoder`
    created,         \* parameters of every encoder VideoEncoder::new returned
    feeds,           \* send_frame calls made on each encoder
    finishes,        \* finish calls made on each encoder
    dropped,         \* encoders dropped (overwritten in the slot) unfinished
    acks,            \* text frames handed to publisher.send, in order
    rx,              \* text frames received for the command in progress
    cmds,            \* the commands whose arm ran to its end, as received
    framesAt,        \* framesAt[k]: invocations begun after k commands ended
    overlap,         \* some invocation ran while a command was in progress
    py               \* the Python binding's VideoEncoder object and its callers

shared == <<capturing, video_encoder, cap_owner, enc_owner, cap_poison, enc_poison>>
hnd == <<was_capturing, hpc, snap, taken>>
ctl == <<cpc, message, timestamp, video_name, fps, width, height, encoder>>
enc == <<created, feeds, finishes, dropped>>
obs == <<acks, rx, cmds, framesAt, overlap>>
session == <<shared, hnd, ctl, enc, obs>>
vars == <<session, py>>

RECURSIVE SumTo(_, _)
SumTo(f, k) == IF k < 0 THEN 0 ELSE f[k] + SumTo(f, k - 1)
\* number of on_frame_arrived invocations so far
NFrames == SumTo(framesAt, MaxCmds)

\* threads that call methods of one Python VideoEncoder object
NPyThreads == 2
PyThreads == 1..NPyThreads
\* method calls made on that object
MaxPyCalls == 3

\* the message of the error both methods return once the slot is empty
PyFinalized == "VideoEncoder has already been finalized."

\* VideoEncoder::new of the Python binding returned Ok: the slot holds the
\* encoder and no method has been called yet
PyInit ==
    [ encoder  |-> TRUE,                           \* the slot is Some
      owner    |-> 0,                              \* thread holding the slot's lock
      pc       |-> [t \in PyThreads |-> "idle"],   \* where each caller stands
      op       |-> [t \in PyThreads |-> "none"],   \* the method it called last
      ret      |-> [t \in PyThreads |-> "none"],   \* what that call returned
      calls    |-> 0,                              \* method calls begun
      sent     |-> 0,                              \* send_frame calls on the encoder
      finished |-> 0,                              \* finish calls on the encoder
      took     |-> FALSE,                          \* finish has emptied the slot
      under    |-> "none" ]                        \* result of the encoder's finish

\* main, lines 134-135, and Capture::new
Init ==
    /\ capturing = FALSE
    /\ video_encoder = None
    /\ cap_owner = "free" /\ enc_owner = "free"
    /\ cap_poison = FALSE /\ enc_poison = FALSE
    /\ was_capturing = FALSE
    /\ hpc = "idle" /\ snap = FALSE /\ taken = None
    /\ cpc = "recv" /\ message = <<>> /\ timestamp = 0
    /\ video_name = <<>> /\ fps = 0 /\ width = 0 /\ height = 0
    /\ encoder = None
    /\ created = <<>>
    /\ feeds = [e \in Encoders |-> 0]
    /\ finishes = [e \in Encoders |-> 0]
    /\ dropped = {}
    /\ acks = <<>> /\ rx = <<>> /\ cmds = <<>>
    /\ framesAt = [k \in 0..MaxCmds |-> 0]
    /\ overlap = FALSE
    /\ py = PyInit

\* The process lives while Capture::start has not returned or panicked.
HandlerEnded == hpc \in {"panicked", "failed", "closed"}
ControlDead == cpc \in {"dead_recv", "dead_parse", "dead_create", "dead_send"}
ControlRuns == ~HandlerEnded /\ ~ControlDead

\* ------------------------------------------------- the capture thread
\* One more invocation begins: the ghost counters of the run.
FrameBegins ==
    /\ framesAt' = [framesAt EXCEPT ![Len(cmds)] = @ + 1]
    /\ overlap' = (overlap \/ cpc # "recv")

\* A variant of AfterSnapshot: the frame is fed whenever a capturing period
\* is open, whatever the snapshot says (`if capturing || self.was_capturing`).
AfterSnapshotUngated(c) ==
    IF c \/ was_capturing
    THEN /\ was_capturing' = TRUE
         /\ hpc' = "feed_lock"
    ELSE /\ was_capturing' = was_capturing
         /\ hpc' = "idle"

\* A variant of AfterSnapshot: the frame that opens a capturing period only
\* resets the clock and is not fed (an early return in the edge branch).
AfterSnapshotSkipsEdge(c) ==
    IF c THEN /\ was_capturing' = TRUE
              /\ hpc' = IF was_capturing THEN "feed_lock" ELSE "idle"
    ELSE IF was_capturing
         THEN /\ was_capturing' = FALSE
              /\ hpc' = "take_lock"
         ELSE /\ was_capturing' = was_capturing
              /\ hpc' = "idle"

\* The branch taken after the snapshot (lines 72, 73-77, 85-86, 91).
AfterSnapshot(c) ==
    IF c THEN /\ was_capturing' = TRUE
              /\ hpc' = "feed_lock"
    ELSE IF was_capturing
         THEN /\ was_capturing' = FALSE
              /\ hpc' = "take_lock"
         ELSE /\ was_capturing' = was_capturing
              /\ hpc' = "idle"

\* A variant of HSnapshot: the flag is read only while no capturing period is
\* open and the cached value is used otherwise (`if !self.was_capturing`).
HSnapshotCached ==
    /\ hpc = "idle" /\ NFrames < MaxFrames
    /\ cap_owner = "free" /\ ~cap_poison
    /\ snap' = (was_capturing \/ capturing)
    /\ AfterSnapshot(was_capturing \/ capturing)
    /\ FrameBegins
    /\ UNCHANGED <<shared, taken, ctl, enc, acks, rx, cmds>>
    /\ UNCHANGED py

\* A variant of HSnapshot: the guard is bound to a local
\* (`let guard = self.flags.capturing.lock().unwrap();`) and so is still held
\* when the handler asks for the video_encoder mutex.
HSnapshotHoldsGuard ==
    /\ hpc = "idle" /\ NFrames < MaxFrames
    /\ cap_owner = "free" /\ ~cap_poison
    /\ cap_owner' = "hnd"
    /\ snap' = capturing
    /\ AfterSnapshot(capturing)
    /\ FrameBegins
    /\ UNCHANGED <<capturing, video_encoder, enc_owner, cap_poison, enc_poison,
                   taken, ctl, enc, acks, rx, cmds>>
    /\ UNCHANGED py

\* line 71: let capturing = *self.flags.capturing.lock().unwrap();
\* the guard is a temporary, released at the end of the statement.
HSnapshot ==
    /\ hpc = "idle" /\ NFrames < MaxFrames
    /\ cap_owner = "free" /\ ~cap_poison
    /\ snap' = capturing
    /\ AfterSnapshot(capturing)
    /\ FrameBegins
    /\ UNCHANGED <<shared, taken, ctl, enc, acks, rx, cmds>>
    /\ UNCHANGED py

\* line 71 on a poisoned mutex: lock() is Err and unwrap() panics.
HSnapshotPoisoned ==
    /\ hpc = "idle" /\ NFrames < MaxFrames
    /\ cap_owner = "free" /\ cap_poison
    /\ hpc' = "panicked"
    /\ FrameBegins
    /\ UNCHANGED <<shared, was_capturing, snap, taken, ctl, enc, acks, rx, cmds>>
    /\ UNCHANGED py

\* lines 83 and 87 on a poisoned video_encoder mutex.
HLockPoisoned ==
    /\ hpc \in {"feed_lock", "take_lock"}
    /\ enc_owner = "free" /\ enc_poison
    /\ hpc' = "panicked"
    /\ UNCHANGED <<shared, was_capturing, snap, taken, ctl, enc, obs>>
    /\ UNCHANGED py

\* line 83, first half: video_encoder.lock().unwrap() then as_mut().unwrap();
\* the guard lives to the end of the statement, so a None panics under the
\* lock and the call to send_frame is made under the lock.
HFeedLock ==
    /\ hpc = "feed_lock"
    /\ enc_owner = "free" /\ ~enc_poison
    /\ IF video_encoder = None
       THEN /\ hpc' = "panicked"
            /\ enc_poison' = TRUE
            /\ enc_owner' = enc_owner
       ELSE /\ hpc' = "feeding"
            /\ enc_owner' = "hnd"
            /\ enc_poison' = enc_poison
    /\ UNCHANGED <<capturing, video_encoder, cap_owner, cap_poison,
                   was_capturing, snap, taken, ctl, enc, obs>>
    /\ UNCHANGED py

\* line 83, second half: send_frame(frame) returns Ok, `?` passes, and the
\* handler returns Ok(()) at line 109.
HSendFrame ==
    /\ hpc = "feeding"
    /\ feeds' = [feeds EXCEPT ![video_encoder] = @ + 1]
    /\ enc_owner' = "free"
    /\ hpc' = "idle"
    /\ UNCHANGED <<capturing, video_encoder, cap_owner, cap_poison, enc_poison,
                   was_capturing, snap, taken, ctl, created, finishes, dropped, obs>>
    /\ UNCHANGED py

\* line 83, second half: send_frame(frame) returns Err and `?` returns it.
HSendFrameErr ==
    /\ hpc = "feeding"
    /\ feeds' = [feeds EXCEPT ![video_encoder] = @ + 1]
    /\ enc_owner' = "free"
    /\ hpc' = "failed"
    /\ UNCHANGED <<capturing, video_encoder, cap_owner, cap_poison, enc_poison,
                   was_capturing, snap, taken, ctl, created, finishes, dropped, obs>>
    /\ UNCHANGED py

\* line 87, first half: video_encoder.lock().unwrap() then take().unwrap().
HTake ==
    /\ hpc = "take_lock"
    /\ enc_owner = "free" /\ ~enc_poison
    /\ IF video_encoder = None
       THEN /\ hpc' = "panicked"
            /\ enc_poison' = TRUE
            /\ UNCHANGED <<enc_owner, video_encoder, taken>>
       ELSE /\ hpc' = "finishing"
            /\ enc_owner' = "hnd"
            /\ taken' = video_encoder
            /\ video_encoder' = None
            /\ enc_poison' = enc_poison
    /\ UNCHANGED <<capturing, cap_owner, cap_poison,
                   was_capturing, snap, ctl, enc, obs>>
    /\ UNCHANGED py

\* line 87, second half: finish() on the taken encoder returns Ok.
HFinish ==
    /\ hpc = "finishing"
    /\ finishes' = [finishes EXCEPT ![taken] = @ + 1]
    /\ taken' = None
    /\ enc_owner' = "free"
    /\ hpc' = "idle"
    /\ UNCHANGED <<capturing, video_encoder, cap_owner, cap_poison, enc_poison,
                   was_capturing, snap, ctl, created, feeds, dropped, obs>>
    /\ UNCHANGED py

\* line 87, second half: finish() returns Err and `?` returns it.
HFinishErr ==
    /\ hpc = "finishing"
    /\ finishes' = [finishes EXCEPT ![taken] = @ + 1]
    /\ taken' = None
    /\ enc_owner' = "free"
    /\ hpc' = "failed"
    /\ UNCHANGED <<capturing, video_encoder, cap_owner, cap_poison, enc_poison,
                   was_capturing, snap, ctl, created, feeds, dropped, obs>>
    /\ UNCHANGED py

\* lines 112-115: the capture item closed; on_closed prints and returns Ok,
\* the run loop ends and main returns at line 247.
OnClosed ==
    /\ hpc = "idle"
    /\ hpc' = "closed"
    /\ UNCHANGED <<shared, was_capturing, snap, taken, ctl, enc, obs>>
    /\ UNCHANGED py

\* ------------------------------------------------- the control thread
\* lines 189-229: the arm the match selects for a decoded message
Arm(m) ==
    IF m = STR_start THEN "recv_name"
    ELSE IF m = STR_stop THEN "stop_lock"
    ELSE "recv"

\* SystemTime::now() at line 187: the clock is abstracted to the ordinal of
\* the command it stamps (it only has to grow from one command to the next).
Now == Len(cmds) + 1

\* the end of an arm: its locals leave scope and the loop is back at recv
ArmEnds(received) ==
    /\ cmds' = Append(cmds, received)
    /\ rx' = <<>>
    /\ cpc' = "recv"
    /\ message' = <<>> /\ timestamp' = 0
    /\ video_name' = <<>> /\ fps' = 0 /\ width' = 0 /\ height' = 0
    /\ encoder' = None

\* lines 185-189: recv_string at the top of the loop, then the match.
CRecv ==
    /\ ControlRuns /\ cpc = "recv" /\ Len(cmds) < MaxCmds
    /\ \E m \in Commands :
          IF Arm(m) = "recv"
          THEN ArmEnds(<<m>>)
          ELSE /\ cpc' = Arm(m)
               /\ message' = m
               /\ timestamp' = Now
               /\ rx' = <<m>>
               /\ UNCHANGED <<video_name, fps, width, height, encoder, cmds>>
    /\ overlap' = (overlap \/ hpc # "idle")
    /\ UNCHANGED <<shared, hnd, enc, acks, framesAt>>
    /\ UNCHANGED py

\* lines 185, 192, 194, 196, 198: recv_string fails (a transport error, or
\* bytes that are not UTF-8) and unwrap() panics; no lock is held.
CRecvFail ==
    /\ ControlRuns
    /\ \/ cpc = "recv" /\ Len(cmds) < MaxCmds
       \/ cpc \in {"recv_name", "recv_fps", "recv_width", "recv_height"}
    /\ cpc' = "dead_recv"
    /\ UNCHANGED <<shared, hnd, message, timestamp, video_name, fps, width,
                   height, encoder, enc, obs>>
    /\ UNCHANGED py

\* A variant of CRecvName: the frame after "start" goes through the match
\* again, so a video_name of "stop" is taken for a Stop command.
CRecvNameDecodes ==
    /\ ControlRuns /\ cpc = "recv_name"
    /\ \E s \in NameTexts :
          /\ video_name' = s /\ rx' = Append(rx, s)
          /\ cpc' = IF Arm(s) = "recv" THEN "recv_fps" ELSE Arm(s)
    /\ UNCHANGED <<shared, hnd, message, timestamp, fps, width, height,
                   encoder, enc, acks, cmds, framesAt, overlap>>
    /\ UNCHANGED py

\* line 192: let video_name = subscriber.recv_string(0).unwrap().unwrap();
CRecvName ==
    /\ ControlRuns /\ cpc = "recv_name"
    /\ \E s \in NameTexts : video_name' = s /\ rx' = Append(rx, s)
    /\ cpc' = "recv_fps"
    /\ UNCHANGED <<shared, hnd, message, timestamp, fps, width, height,
                   encoder, enc, acks, cmds, framesAt, overlap>>
    /\ UNCHANGED py

\* lines 194, 196, 198, first half: the text of a numeric field arrives.
CRecvNumber ==
    /\ ControlRuns
    /\ \/ cpc = "recv_fps" /\ cpc' = "parse_fps" /\ message' \in FpsTexts
       \/ cpc = "recv_width" /\ cpc' = "parse_width" /\ message' \in WidthTexts
       \/ cpc = "recv_height" /\ cpc' = "parse_height" /\ message' \in HeightTexts
    /\ rx' = Append(rx, message')
    /\ UNCHANGED <<shared, hnd, timestamp, video_name, fps, width, height,
                   encoder, enc, acks, cmds, framesAt, overlap>>
    /\ UNCHANGED py

\* lines 194, 196, 198, second half: .parse().unwrap() returns the number.
CParse ==
    /\ ControlRuns
    /\ cpc \in {"parse_fps", "parse_width", "parse_height"}
    /\ ParseU32(message) # ParseErr
    /\ \/ /\ cpc = "parse_fps" /\ cpc' = "recv_width"
          /\ fps' = ParseU32(message) /\ UNCHANGED <<width, height>>
       \/ /\ cpc = "parse_width" /\ cpc' = "recv_height"
          /\ width' = ParseU32(message) /\ UNCHANGED <<fps, height>>
       \/ /\ cpc = "parse_height" /\ cpc' = "create"
          /\ height' = ParseU32(message) /\ UNCHANGED <<fps, width>>
    /\ UNCHANGED <<shared, hnd, message, timestamp, video_name, encoder, enc, obs>>
    /\ UNCHANGED py

\* A variant of CParseFail: the error path also clears the capturing flag.
CParseFailClears ==
    /\ ControlRuns
    /\ cpc \in {"parse_fps", "parse_width", "parse_height"}
    /\ ParseU32(message) = ParseErr
    /\ cpc' = "dead_parse"
    /\ capturing' = FALSE
    /\ UNCHANGED <<video_encoder, cap_owner, enc_owner, cap_poison, enc_poison,
                   hnd, message, timestamp, video_name, fps, width,
                   height, encoder, enc, obs>>
    /\ UNCHANGED py

\* lines 194, 196, 198, second half: .parse() is Err and unwrap() panics;
\* the thread unwinds out of the closure and the loop is gone.
CParseFail ==
    /\ ControlRuns
    /\ cpc \in {"parse_fps", "parse_width", "parse_height"}
    /\ ParseU32(message) = ParseErr
    /\ cpc' = "dead_parse"
    /\ UNCHANGED <<shared, hnd, message, timestamp, video_name, fps, width,
                   height, encoder, enc, obs>>
    /\ UNCHANGED py

\* lines 201-208: VideoEncoder::new(Hevc, HD1080p, width, height,
\* video_name.clone(), Some(fps)) returns Ok.
CCreate ==
    /\ ControlRuns /\ cpc = "create"
    /\ created' = Append(created, [path |-> video_name, fps |-> fps,
                                   width |-> width, height |-> height])
    /\ encoder' = Len(created) + 1
    /\ cpc' = "lock_enc"
    /\ UNCHANGED <<shared, hnd, message, timestamp, video_name, fps, width,
                   height, feeds, finishes, dropped, obs>>
    /\ UNCHANGED py

\* lines 201-208: VideoEncoder::new returns Err and unwrap() panics.
CCreateFail ==
    /\ ControlRuns /\ cpc = "create"
    /\ cpc' = "dead_create"
    /\ UNCHANGED <<shared, hnd, message, timestamp, video_name, fps, width,
                   height, encoder, enc, obs>>
    /\ UNCHANGED py

\* A variant of CInstall: the guard is a temporary of the assignment
\* (`*video_encoder.lock().unwrap() = Some(encoder);`) and is released at once.
CInstallUnlocked ==
    /\ ControlRuns /\ cpc = "lock_enc"
    /\ enc_owner = "free" /\ ~enc_poison
    /\ video_encoder' = encoder
    /\ dropped' = IF video_encoder = None THEN dropped
                  ELSE dropped \cup {video_encoder}
    /\ cpc' = "lock_cap"
    /\ UNCHANGED <<capturing, cap_owner, enc_owner, cap_poison, enc_poison, hnd,
                   message, timestamp, video_name, fps, width, height, encoder,
                   created, feeds, finishes, obs>>
    /\ UNCHANGED py

\* lines 209-210: the video_encoder mutex is locked (the guard is bound to
\* shared_video_encoder and lives to the end of the arm) and the slot is
\* assigned; the encoder it held, if any, is dropped.
CInstall ==
    /\ ControlRuns /\ cpc = "lock_enc"
    /\ enc_owner = "free" /\ ~enc_poison
    /\ enc_owner' = "ctl"
    /\ video_encoder' = encoder
    /\ dropped' = IF video_encoder = None THEN dropped
                  ELSE dropped \cup {video_encoder}
    /\ cpc' = "lock_cap"
    /\ UNCHANGED <<capturing, cap_owner, cap_poison, enc_poison, hnd, message,
                   timestamp, video_name, fps, width, height, encoder,
                   created, feeds, finishes, obs>>
    /\ UNCHANGED py

\* lines 212-213: the capturing mutex is locked, the guard lives to the end
\* of the arm, and the flag is set.
CSetCapturing ==
    /\ ControlRuns /\ cpc = "lock_cap"
    /\ cap_owner = "free" /\ ~cap_poison
    /\ cap_owner' = "ctl"
    /\ capturing' = TRUE
    /\ cpc' = "send_start"
    /\ UNCHANGED <<video_encoder, enc_owner, cap_poison, enc_poison, hnd,
                   message, timestamp, video_name, fps, width, height, encoder,
                   enc, obs>>
    /\ UNCHANGED py

\* A variant of CStop: the stop arm also calls finish on the encoder in the
\* slot, without taking it out, so the frame handler finalizes it again.
CStopFinalizes ==
    /\ ControlRuns /\ cpc = "stop_lock"
    /\ cap_owner = "free" /\ ~cap_poison
    /\ cap_owner' = "ctl"
    /\ capturing' = FALSE
    /\ finishes' = IF video_encoder = None THEN finishes
                   ELSE [finishes EXCEPT ![video_encoder] = @ + 1]
    /\ cpc' = "send_stop"
    /\ UNCHANGED <<video_encoder, enc_owner, cap_poison, enc_poison, hnd,
                   message, timestamp, video_name, fps, width, height, encoder,
                   created, feeds, dropped, obs>>
    /\ UNCHANGED py

\* A variant of CStop: the stop arm also empties the slot
\* (`*video_encoder.lock().unwrap() = None;`), dropping the encoder.
CStopClearsSlot ==
    /\ ControlRuns /\ cpc = "stop_lock"
    /\ cap_owner = "free" /\ ~cap_poison
    /\ enc_owner = "free" /\ ~enc_poison
    /\ cap_owner' = "ctl"
    /\ capturing' = FALSE
    /\ video_encoder' = None
    /\ dropped' = IF video_encoder = None THEN dropped
                  ELSE dropped \cup {video_encoder}
    /\ cpc' = "send_stop"
    /\ UNCHANGED <<enc_owner, cap_poison, enc_poison, hnd,
                   message, timestamp, video_name, fps, width, height, encoder,
                   created, feeds, finishes, obs>>
    /\ UNCHANGED py

\* lines 220-221: the stop arm locks the capturing mutex and clears the flag.
CStop ==
    /\ ControlRuns /\ cpc = "stop_lock"
    /\ cap_owner = "free" /\ ~cap_poison
    /\ cap_owner' = "ctl"
    /\ capturing' = FALSE
    /\ cpc' = "send_stop"
    /\ UNCHANGED <<video_encoder, enc_owner, cap_poison, enc_poison, hnd,
                   message, timestamp, video_name, fps, width, height, encoder,
                   enc, obs>>
    /\ UNCHANGED py

\* lines 216 and 223: publisher.send("start" / "stop", 0).unwrap()
CSendLiteral ==
    /\ ControlRuns
    /\ \/ cpc = "send_start" /\ cpc' = "ts_start" /\ acks' = Append(acks, STR_start)
       \/ cpc = "send_stop" /\ cpc' = "ts_stop" /\ acks' = Append(acks, STR_stop)
    /\ UNCHANGED <<shared, hnd, message, timestamp, video_name, fps, width,
                   height, encoder, enc, rx, cmds, framesAt, overlap>>
    /\ UNCHANGED py

\* lines 217-218 and 224-225: publisher.send(&timestamp.to_string(), 0), then
\* the arm ends and the guards it holds are released.
CSendTimestamp ==
    /\ ControlRuns /\ cpc \in {"ts_start", "ts_stop"}
    /\ acks' = Append(acks, to_string(timestamp))
    /\ cap_owner' = "free"
    /\ enc_owner' = IF enc_owner = "ctl" THEN "free" ELSE enc_owner
    /\ ArmEnds(rx)
    /\ UNCHANGED <<capturing, video_encoder, cap_poison, enc_poison, hnd, enc,
                   framesAt, overlap>>
    /\ UNCHANGED py

\* lines 216-217 and 223-224: publisher.send returns Err and unwrap() panics
\* while the arm's guards are held: they are released by the unwinding and
\* their mutexes are poisoned.
CSendFail ==
    /\ ControlRuns
    /\ cpc \in {"send_start", "ts_start", "send_stop", "ts_stop"}
    /\ cpc' = "dead_send"
    /\ cap_owner' = "free" /\ cap_poison' = TRUE
    /\ enc_owner' = IF enc_owner = "ctl" THEN "free" ELSE enc_owner
    /\ enc_poison' = (enc_poison \/ enc_owner = "ctl")
    /\ UNCHANGED <<capturing, video_encoder, hnd, message, timestamp,
                   video_name, fps, width, height, encoder, enc, obs>>
    /\ UNCHANGED py

Next ==
    \/ HSnapshot \/ HSnapshotPoisoned \/ HLockPoisoned
    \/ HFeedLock \/ HSendFrame \/ HSendFrameErr
    \/ HTake \/ HFinish \/ HFinishErr \/ OnClosed
    \/ CRecv \/ CRecvFail \/ CRecvName \/ CRecvNumber \/ CParse \/ CParseFail
    \/ CCreate \/ CCreateFail \/ CInstall \/ CSetCapturing \/ CStop
    \/ CSendLiteral \/ CSendTimestamp \/ CSendFail

Spec == Init /\ [][Next]_vars

\* ------------------------------------ the Python binding's VideoEncoder

PyCallBegins(t) ==
    /\ py.pc[t] = "idle"
    /\ py.owner = 0
    /\ py.calls < MaxPyCalls

\* send_frame: the lock, and the else branch when the slot is empty
PySendFrameLock(t) ==
    /\ PyCallBegins(t)
    /\ py' = IF py.encoder
               THEN [py EXCEPT !.calls = @ + 1, !.op[t] = "send_frame",
                               !.ret[t] = "none", !.owner = t,
                               !.pc[t] = "send_frame"]
               ELSE [py EXCEPT !.calls = @ + 1, !.op[t] = "send_frame",
                               !.ret[t] = PyFinalized]
    /\ UNCHANGED session

\* send_frame: Frame::from_buffer rejects the buffer
PyFromBufferErr(t) ==
    /\ py.pc[t] = "send_frame"
    /\ py' = [py EXCEPT !.ret[t] = "error", !.owner = 0, !.pc[t] = "idle"]
    /\ UNCHANGED session

\* send_frame: the encoder accepts the frame
PySendFrameOk(t) ==
    /\ py.pc[t] = "send_frame"
    /\ py' = [py EXCEPT !.sent = @ + 1, !.ret[t] = "ok", !.owner = 0,
                        !.pc[t] = "idle"]
    /\ UNCHANGED session

\* send_frame: the encoder returns an error
PySendFrameErr(t) ==
    /\ py.pc[t] = "send_frame"
    /\ py' = [py EXCEPT !.sent = @ + 1, !.ret[t] = "error", !.owner = 0,
                        !.pc[t] = "idle"]
    /\ UNCHANGED session

\* finish: the lock and take(), and the else branch when the slot is empty
PyFinishLock(t) ==
    /\ PyCallBegins(t)
    /\ py' = IF py.encoder
               THEN [py EXCEPT !.calls = @ + 1, !.op[t] = "finish",
                               !.ret[t] = "none", !.owner = t,
                               !.encoder = FALSE, !.took = TRUE,
                               !.pc[t] = "finish"]
               ELSE [py EXCEPT !.calls = @ + 1, !.op[t] = "finish",
                               !.ret[t] = PyFinalized]
    /\ UNCHANGED session

\* finish: the encoder's finish returns Ok
PyFinishOk(t) ==
    /\ py.pc[t] = "finish"
    /\ py' = [py EXCEPT !.finished = @ + 1, !.under = "ok", !.ret[t] = "ok",
                        !.owner = 0, !.pc[t] = "idle"]
    /\ UNCHANGED session

\* a finish that puts the encoder back when its finish fails
PyFinishErrRestores(t) ==
    /\ py.pc[t] = "finish"
    /\ py' = [py EXCEPT !.finished = @ + 1, !.under = "error",
                        !.ret[t] = "error", !.encoder = TRUE,
                        !.owner = 0, !.pc[t] = "idle"]
    /\ UNCHANGED session

\* finish: the encoder's finish returns an error; the slot stays empty
PyFinishErr(t) ==
    /\ py.pc[t] = "finish"
    /\ py' = [py EXCEPT !.finished = @ + 1, !.under = "error",
                        !.ret[t] = "error", !.owner = 0, !.pc[t] = "idle"]
    /\ UNCHANGED session

NextPy ==
    \/ \E t \in PyThreads : PySendFrameLock(t)
    \/ \E t \in PyThreads : PyFromBufferErr(t)
    \/ \E t \in PyThreads : PySendFrameOk(t)
    \/ \E t \in PyThreads : PySendFrameErr(t)
    \/ \E t \in PyThreads : PyFinishLock(t)
    \/ \E t \in PyThreads : PyFinishOk(t)
    \/ \E t \in PyThreads : PyFinishErr(t)

SpecPy == Init /\ [][NextPy]_vars

\* ================================================================ claims

\* ---- C1 -----------------------------------------------------------------
\* C1 as stated: whenever send_frame is being invoked on the encoder, the
\* shared capturing flag is true.
C1_FeedOnlyWhileFlagTrue == hpc = "feeding" => capturing

\* C1 as amended: whenever the handler is on its way to send_frame or inside
\* it, the capturing value this invocation snapshotted at line 71 is true and
\* the handler-local was_capturing is set; a frame whose snapshot is false is
\* never fed (the shared flag itself may have been cleared since).
C1_FeedOnlyAfterTrueSnapshot ==
    hpc \in {"feed_lock", "feeding"} => (snap /\ was_capturing)

\* the race of C1: send_frame runs after a Stop has cleared the flag
C1_Witness == hpc = "feeding" /\ snap /\ ~capturing

\* ---- C2 -----------------------------------------------------------------
\* C2: finish is called at most once on every encoder ever created.
C2_FinishAtMostOnce == \A e \in Encoders : finishes[e] <= 1

\* Start, frames, Stop, frames, Stop, frames: the stop path ran twice in a
\* row and the session's encoder was finalized once.
C2_Witness ==
    /\ Len(cmds) = 3
    /\ cmds[1][1] = STR_start /\ cmds[2] = <<STR_stop>> /\ cmds[3] = <<STR_stop>>
    /\ framesAt[1] >= 1 /\ framesAt[2] >= 1 /\ framesAt[3] >= 1
    /\ hpc = "idle" /\ finishes[1] = 1

\* ---- C3 -----------------------------------------------------------------
\* the Start arm has assigned the slot and not yet set the flag
StartHalfDone == cpc = "lock_cap" /\ ~capturing

\* C3: the frame handler never reads the shared state while a Start has
\* changed exactly one of the two cells (slot installed, flag still false).
C3_StartAtomicForHandler == [][HSnapshot => ~StartHalfDone]_vars

\* ---- C4 -----------------------------------------------------------------
\* C4: in every reachable state, capturing = true implies the slot is Some.
C4_CapturingImpliesEncoder == capturing => video_encoder # None

\* ---- C5 -----------------------------------------------------------------
\* C5: a Start arm that reaches line 210 while capturing is true and the slot
\* is occupied leaves the slot holding the encoder it held.
C5_DuplicateStartKeepsEncoder ==
    [][(CInstall /\ capturing /\ video_encoder # None)
          => video_encoder' = video_encoder]_vars

\* ---- C6 -----------------------------------------------------------------
\* the last command that ran to its end is a Stop and at least one frame
\* invocation began after it and has returned
StoppedAndFramed ==
    /\ cmds # <<>> /\ cmds[Len(cmds)] = <<STR_stop>>
    /\ cpc = "recv" /\ hpc = "idle"
    /\ framesAt[Len(cmds)] >= 1

\* C6: once a Stop has been followed by frame invocations (and no Start),
\* the slot is empty and the last encoder created has been finalized, also
\* when no frame arrived between the Start and the Stop.
C6_StopThenFramesEmptiesSlot ==
    StoppedAndFramed =>
        /\ video_encoder = None
        /\ (created # <<>> => finishes[Len(created)] = 1)

\* ---- C7 -----------------------------------------------------------------
\* a well-formed Start, n frames, a Stop, at least one more frame, no step
\* overlapping the next, everything returned
RoundTrip(n) ==
    /\ ~overlap
    /\ Len(cmds) = 2 /\ cmds[1][1] = STR_start /\ cmds[2] = <<STR_stop>>
    /\ cpc = "recv" /\ hpc = "idle"
    /\ framesAt[1] = n /\ framesAt[2] >= 1

\* C7: the round trip yields one encoder, built from the Start's parameters,
\* fed exactly n times and finalized exactly once, capturing = false, an
\* empty slot, and the frames "start", timestamp, "stop", timestamp.
C7_RoundTrip ==
    \A n \in 1..MaxFrames :
        RoundTrip(n) =>
            /\ created = <<[path |-> cmds[1][2], fps |-> 30,
                            width |-> 1920, height |-> 1080]>>
            /\ feeds[1] = n
            /\ finishes[1] = 1
            /\ ~capturing
            /\ video_encoder = None
            /\ dropped = {}
            /\ acks = <<STR_start, <<"1">>, STR_stop, <<"2">>>>

C7_Witness == RoundTrip(2) /\ framesAt[0] = 0

\* ---- C8 -----------------------------------------------------------------
StartBeforeInstall ==
    {"recv_name", "recv_fps", "parse_fps", "recv_width", "parse_width",
     "recv_height", "parse_height", "create"}
StartFailed == cpc \in {"dead_parse", "dead_create"}

\* C8: every step of a Start arm up to and including the failure of a parse
\* or of VideoEncoder::new leaves capturing, the slot and the published
\* frames as they were, and after the failure the control thread publishes
\* nothing and never changes capturing.
C8_FailedStartChangesNothing ==
    [][ /\ (cpc' \in StartBeforeInstall \cup {"dead_parse", "dead_create"}
              /\ cpc' # cpc)
            => UNCHANGED <<capturing, video_encoder, acks>>
        /\ StartFailed => (StartFailed' /\ UNCHANGED <<capturing, acks>>) ]_vars

\* a second Start fails to parse while the first session is capturing
C8_Witness ==
    /\ cpc = "dead_parse" /\ capturing /\ video_encoder = 1
    /\ acks = <<STR_start, <<"1">>>>

\* ---- C9 -----------------------------------------------------------------
\* C9: when a numeric field of a Start does not parse, the command is
\* dropped and the control loop is back at its receive.
C9_DecodeErrorRecoverable ==
    [][(cpc \in {"parse_fps", "parse_width", "parse_height"}
          /\ ParseU32(message) = ParseErr /\ cpc' # cpc)
          => cpc' = "recv"]_vars

\* ---- C10 ----------------------------------------------------------------
\* C10: a handler that snapshotted capturing = true and finds the slot empty
\* makes no feed call and returns Ok.
C10_EmptySlotDropsFrame ==
    [][(hpc = "feed_lock" /\ video_encoder = None /\ hpc' # hpc)
          => (hpc' = "idle" /\ feeds' = feeds)]_vars
\* ---- C11 ----------------------------------------------------------------
\* C11: when the capture item has closed (on_closed ran and the run loop
\* ended), the slot is empty: an encoder that was installed has been taken
\* and finalized.
C11_ClosureDrainsEncoder ==
    hpc = "closed" =>
        /\ video_encoder = None
        /\ \A e \in 1..Len(created) : finishes[e] >= 1

\* ---- C12 ----------------------------------------------------------------
\* the control thread ended on a transport error (recv_string or send)
TransportDead == cpc \in {"dead_recv", "dead_send"}

\* C12: once the control loop has ended on a transport error, the capture
\* run loop delivers no further frame to the handler and no frame is fed.
C12_TransportErrorEndsCapture ==
    [][TransportDead => (framesAt' = framesAt /\ feeds' = feeds)]_vars
\* ---- C13 ----------------------------------------------------------------
\* the handler is inside an invocation (between line 71 and its return)
InInvocation == hpc \in {"feed_lock", "feeding", "take_lock", "finishing"}

\* C13: an invocation whose line 71 runs while capturing is false (after a
\* Stop's write and before a later Start's write) snapshots false, goes to
\* the idle or the finalize branch, and makes no send_frame call up to its
\* return, whatever the control thread does meanwhile.
C13_FrameAfterStopNeverFed ==
    [][ /\ (HSnapshot /\ ~capturing)
            => (~snap' /\ hpc' \in {"idle", "take_lock"} /\ feeds' = feeds)
        /\ (InInvocation /\ ~snap)
            => (feeds' = feeds /\ snap' = snap
                /\ hpc' \notin {"feed_lock", "feeding"}) ]_vars

\* one frame of the session was fed, then two frames that began after the
\* Stop returned without a feed
C13_Witness ==
    /\ ~overlap /\ Len(cmds) = 2
    /\ cmds[1][1] = STR_start /\ cmds[2] = <<STR_stop>>
    /\ framesAt[1] = 1 /\ framesAt[2] = 2
    /\ hpc = "idle" /\ ~capturing
    /\ feeds[1] = 1
\* ---- C15 ----------------------------------------------------------------
StopArm == {"stop_lock", "send_stop", "ts_stop"}

\* C15: the steps of a Stop arm set capturing to false, publish "stop" and
\* then the timestamp, and leave the slot as it is; no step of the control
\* thread calls finish; a finish call is a step of the frame handler in an
\* invocation that snapshotted capturing = false.
C15_StopOnlyClearsFlag ==
    [][ /\ (cpc \in StopArm /\ cpc' # cpc)
            => (video_encoder' = video_encoder /\ ~capturing')
        /\ (cpc = "stop_lock" /\ cpc' # cpc) => acks' = acks
        /\ (cpc = "send_stop" /\ cpc' = "ts_stop")
            => acks' = Append(acks, STR_stop)
        /\ (cpc = "ts_stop" /\ cpc' = "recv")
            => acks' = Append(acks, to_string(timestamp))
        /\ (cpc' # cpc) => finishes' = finishes
        /\ (finishes' # finishes) => (hpc = "finishing" /\ ~snap) ]_vars

\* the "stop" pair is out while the session's encoder is still in the slot,
\* not finalized
C15_Witness ==
    /\ cpc = "recv" /\ Len(cmds) = 2 /\ cmds[2] = <<STR_stop>>
    /\ acks = <<STR_start, <<"1">>, STR_stop, <<"2">>>>
    /\ ~capturing /\ was_capturing
    /\ video_encoder = 1 /\ finishes[1] = 0 /\ feeds[1] >= 1
\* ---- C16 ----------------------------------------------------------------
\* C16: while send_frame or finish is executing, neither session mutex is
\* held.
C16_NoLockAcrossEncoderCall ==
    hpc \in {"feeding", "finishing"} =>
        (enc_owner = "free" /\ cap_owner = "free")

\* ---- C18 ----------------------------------------------------------------
\* C18: an encoder leaves the slot only by the handler's take(), which
\* empties the slot and goes on to call finish on it; the slot is never
\* overwritten while it holds an encoder.
C18_EncoderLeavesOnlyByTake ==
    [][(video_encoder # None /\ video_encoder' # video_encoder)
          => (video_encoder' = None /\ taken' = video_encoder
              /\ hpc' = "finishing")]_vars

\* ---- C20 ----------------------------------------------------------------
\* C20: the encoder the handler finalizes after a false snapshot is the one
\* of the stopped session: while finish runs no session is capturing, that
\* is, no Start came between the snapshot and the take and had its new
\* encoder taken.
C20_FinalizesStoppedSession == hpc = "finishing" => ~capturing
\* ---- C17 ----------------------------------------------------------------
\* the outbound frames of the first k commands that ran to their end: for
\* the k-th command, if it is a Start or a Stop, its literal and then the
\* decimal text of its timestamp
RECURSIVE ExpectedAcks(_)
ExpectedAcks(k) ==
    IF k = 0 THEN <<>>
    ELSE IF cmds[k][1] \in {STR_start, STR_stop}
         THEN ExpectedAcks(k - 1) \o <<cmds[k][1], to_string(k)>>
         ELSE ExpectedAcks(k - 1)

\* C17: whenever the Start arm is at one of its two sends, capturing is true
\* and the slot holds the encoder built from this Start's frames; and every
\* Start or Stop that ran to its end has published exactly its literal
\* followed by its timestamp, in command order.
C17_AckAfterInstall ==
    /\ cpc \in {"send_start", "ts_start"} =>
          /\ capturing
          /\ encoder # None /\ video_encoder = encoder
          /\ created[encoder] = [path |-> rx[2], fps |-> ParseU32(rx[3]),
                                 width |-> ParseU32(rx[4]),
                                 height |-> ParseU32(rx[5])]
          /\ created[encoder].fps = 30 /\ created[encoder].width = 1920
          /\ created[encoder].height = 1080
    /\ cpc \in {"recv", "send_start", "send_stop"} =>
          acks = ExpectedAcks(Len(cmds))
    /\ cpc = "ts_start" => acks = Append(ExpectedAcks(Len(cmds)), STR_start)
    /\ cpc = "ts_stop" => acks = Append(ExpectedAcks(Len(cmds)), STR_stop)

\* the second Start's "start" literal is out, its timestamp is not yet
C17_Witness ==
    /\ cpc = "ts_start" /\ encoder = 2 /\ video_encoder = 2 /\ capturing
    /\ Len(acks) = 5
\* ---- C19 ----------------------------------------------------------------
\* the position the control thread is in once it holds n frames of a Start
AfterFrames(n) ==
    CASE n = 1 -> "recv_name" [] n = 2 -> "recv_fps" [] n = 3 -> "parse_fps"
      [] n = 4 -> "parse_width" [] OTHER -> "parse_height"

\* C19: a frame is decoded as a command only at the top of the loop; the
\* four frames after "start" are taken in the order video_name, fps, width,
\* height, whatever their text, without a change of capturing, of the slot
\* or of the published frames; the encoder is built from them in that order;
\* and the arm ends at the top of the loop, where the next frame is decoded.
C19_ParametersNotCommands ==
    [][ /\ (rx = <<>> /\ rx' # <<>>)
            => (cpc = "recv" /\ Len(rx') = 1 /\ cpc' = Arm(rx'[1]))
        /\ (rx # <<>> /\ rx' # rx /\ rx' # <<>>)
            => /\ rx[1] = STR_start /\ Len(rx) < 5
               /\ Len(rx') = Len(rx) + 1
               /\ cpc' = AfterFrames(Len(rx'))
               /\ UNCHANGED <<capturing, video_encoder, acks, cmds>>
        /\ (cpc = "create" /\ cpc' = "lock_enc")
            => /\ Len(rx) = 5
               /\ created'[encoder'] =
                     [path |-> rx[2], fps |-> ParseU32(rx[3]),
                      width |-> ParseU32(rx[4]), height |-> ParseU32(rx[5])]
        /\ (cmds' # cmds)
            => /\ cpc' = "recv" /\ rx' = <<>>
               /\ Len(cmds'[Len(cmds')]) =
                     (IF cmds'[Len(cmds')][1] = STR_start THEN 5 ELSE 1) ]_vars

\* a Start whose video_name was the text "stop" ran to its end as a Start,
\* and the frame after its parameters was decoded as a Stop
C19_Witness ==
    /\ Len(cmds) = 2
    /\ cmds[1][1] = STR_start /\ cmds[1][2] = STR_stop
    /\ cmds[2] = <<STR_stop>>
    /\ created[1].path = STR_stop
    /\ acks = <<STR_start, <<"1">>, STR_stop, <<"2">>>>
    /\ ~capturing

\* C14: of the Python VideoEncoder: the encoder's finish runs at most once;
\* once finish has emptied the slot it stays empty, also when the encoder's
\* finish returned an error, and every later send_frame or finish returns
\* the finalized error without reaching the encoder.
C14_FinishedHandleRejectsCalls ==
    [][ /\ py'.finished <= 1
        /\ py.took =>
            /\ ~py'.encoder
            /\ py'.sent = py.sent
            /\ py'.calls # py.calls =>
                /\ py'.finished = py.finished
                /\ py'.pc = py.pc /\ py'.owner = py.owner
                /\ \E t \in PyThreads :
                      /\ py.pc[t] = "idle"
                      /\ py'.ret[t] = PyFinalized
                      /\ \A u \in PyThreads \ {t} : py'.ret[u] = py.ret[u] ]_vars

\* the encoder's finish failed, then a finish and a send_frame were refused
C14_Witness ==
    /\ py.under = "error" /\ py.finished = 1 /\ py.sent = 0
    /\ py.calls = 3 /\ ~py.encoder
    /\ py.op[1] = "finish" /\ py.ret[1] = PyFinalized
    /\ py.op[2] = "send_frame" /\ py.ret[2] = PyFinalized
\* ------------------------------------------------------- progress
\* An invocation of on_frame_arrived that has begun runs on: the capture
\* thread is scheduled, and send_frame and finish return.
HandlerProgress ==
    \/ HFeedLock \/ HLockPoisoned \/ HSendFrame \/ HSendFrameErr
    \/ HTake \/ HFinish \/ HFinishErr

\* An arm of the control loop that has begun runs on: the control thread is
\* scheduled, and publisher.send returns.
ControlProgress ==
    \/ CInstall \/ CSetCapturing \/ CStop
    \/ CSendLiteral \/ CSendTimestamp \/ CSendFail

\* commands received and frames delivered in the runs checked for progress
LiveCmds == 2
LiveFrames == 2

\* Next, with the arrivals of commands and frames cut at these numbers
LiveNext ==
    \/ (NFrames < LiveFrames /\ HSnapshot)
    \/ (NFrames < LiveFrames /\ HSnapshotPoisoned)
    \/ HLockPoisoned
    \/ HFeedLock \/ HSendFrame \/ HSendFrameErr
    \/ HTake \/ HFinish \/ HFinishErr \/ OnClosed
    \/ (Len(cmds) < LiveCmds /\ CRecv)
    \/ ((cpc = "recv" => Len(cmds) < LiveCmds) /\ CRecvFail)
    \/ CRecvName \/ CRecvNumber \/ CParse \/ CParseFail
    \/ CCreate \/ CCreateFail \/ CInstall \/ CSetCapturing \/ CStop
    \/ CSendLiteral \/ CSendTimestamp \/ CSendFail

FairSpec ==
    /\ Init /\ [][LiveNext]_vars
    /\ WF_vars(HandlerProgress) /\ WF_vars(ControlProgress)

HandlerWaits == hpc \in {"feed_lock", "take_lock"}
ControlWaits == cpc \in {"lock_enc", "lock_cap", "stop_lock"}

\* no thread waits for one mutex while it holds the other, except the control
\* thread at line 212, and there the mutex it asks for is free
NoCircularWait ==
    /\ cap_owner \in {"free", "ctl"}
    /\ enc_owner = "hnd" => hpc \in {"feeding", "finishing"}
    /\ HandlerWaits => enc_owner # "hnd"
    /\ cap_owner = "ctl" => cpc \in {"send_start", "ts_start", "send_stop", "ts_stop"}
    /\ enc_owner = "ctl" => cpc \in {"lock_cap", "send_start", "ts_start"}
    /\ (cpc = "lock_cap" /\ enc_owner = "ctl") => cap_owner = "free"

C22_FinalizePathFindsEncoder ==
    /\ hpc = "take_lock" => (video_encoder # None /\ ~snap /\ ~was_capturing)
    /\ hpc = "finishing" => (taken # None /\ video_encoder = None)

\* on the finalize path while a Start has installed the second encoder and
\* set the flag again
C22_Witness ==
    /\ hpc = "take_lock" /\ ~snap /\ capturing
    /\ video_encoder = 2 /\ Len(cmds) = 3 /\ cmds[2] = <<STR_stop>>
    /\ feeds[1] >= 1
====
